---- MODULE Spec2Model ----
(***************************************************************************)
(* A model of vector.h: the reference-counted heap block (storage), the    *)
(* copy-on-write dynamic array built on it (vector<T>::bigvector) and the  *)
(* small-size facade over std::variant<monostate, T, bigvector> (vector).  *)
(*                                                                         *)
(* The heap is a map from block ids to blocks.  A pointer is a block id,   *)
(* Null is the null pointer.  Each bigvector operation is an operator from *)
(* (heap, store pointer, arguments) to the SET of its possible results     *)
(* [h, s, out, n, exc]: the heap and the store afterwards, the outcome     *)
(* ("ok", "throw": an exception leaves the call, "fault": see below), the  *)
(* number of element constructions the call performed, and whether one of  *)
(* them threw.                                                             *)
(*                                                                         *)
(* Element constructions can throw: the argument f of an operation is the  *)
(* ordinal of the element construction (within the call) that throws,      *)
(* 0 when none does.                                                       *)
(*                                                                         *)
(* Undefined behaviour.  A read of an uninitialised word yields any of the *)
(* values Indet; an uninitialised element slot holds U, a value equal to   *)
(* nothing that was stored.  Unsigned arithmetic wraps (Dec, Inc).  A      *)
(* dereference of the null pointer, of a freed block, or of a slot outside *)
(* the allocation is a memory fault: the outcome "fault" stops the run and *)
(* stands for whatever the build does there.  Where the usual build also   *)
(* continues, the continuation is a second result of the operation.        *)
(***************************************************************************)
EXTENDS Integers, Sequences, FiniteSets, TLC

\* ---------------------------------------------------------------- bounds
NObj == 3
NWork == 2
MaxTmp == 2
NVal == 2
NFacadeVal == 1
MaxCap == 2
MaxFail == 1
IndetMax == 1
GrowCap == 8

\* size_t, scaled to the integers TLC has: the largest value and the wrap.
SizeMax == 2147483647

Null == 0
U == 0
Val == 1..NVal
FacadeVal == 1..NFacadeVal
Objs == 1..NObj
Work == 1..NWork
Blocks == 1..(NObj + MaxTmp)
Fails == 0..MaxFail
Indet == 0..IndetMax

Dec(x) == IF x = 0 THEN SizeMax ELSE x - 1
Inc(x) == IF x = SizeMax THEN 0 ELSE x + 1
Max(a, b) == IF a >= b THEN a ELSE b

\* ------------------------------------------------------------ the heap
\* struct storage { size_, capacity_, ref_count, data[] }; st is the
\* allocator's view of the block, Len(data) the number of slots allocated.
Block(sz, cp, rc, d) == [st |-> "live", size |-> sz, cap |-> cp, rc |-> rc, data |-> d]
NoBlock == [st |-> "free", size |-> 0, cap |-> 0, rc |-> 0, data |-> << >>]
FreedBlock == [st |-> "freed", size |-> 0, cap |-> 0, rc |-> 0, data |-> << >>]

Blank(cp) == [i \in 1..cp |-> U]

FreshIds(h) == {b \in Blocks : h[b].st = "free"}
make_storage(h) == CHOOSE b \in FreshIds(h) : \A c \in FreshIds(h) : b <= c

\* operator delete(p)
Delete(h, p) == [h EXCEPT ![p] = FreedBlock]

\* p points to no live block: null, or freed.
Dangling(h, p) == p # Null /\ h[p].st # "live"

\* std::uninitialized_copy(src + a, src + a + cnt, dst + d), offsets from 0
CopyInto(dst, d, src, a, cnt) ==
  [i \in 1..Len(dst) |-> IF i > d /\ i <= d + cnt THEN src[a + (i - d)] ELSE dst[i]]

\* std::fill_n(dst + d, cnt, e)
FillInto(dst, d, cnt, e) ==
  [i \in 1..Len(dst) |-> IF i > d /\ i <= d + cnt THEN e ELSE dst[i]]

\* The slots a..b (from 1) of the sequence e, as a sequence of its own
Slice(e, a, b) == [i \in 1..(b - a + 1) |-> e[a + i - 1]]

\* The elements begin()..end() of the block s points to: the first size_
\* slots of data, none for a null store
Elems(h, s) == IF s = Null THEN << >> ELSE Slice(h[s].data, 1, h[s].size)

\* std::destroy(dst + a, dst + b): the slots hold no object afterwards
DestroyRange(dst, a, b) ==
  [i \in 1..Len(dst) |-> IF i > a /\ i <= b THEN U ELSE dst[i]]

\* The results of a call: exc says that an element construction threw
\* during the call (Throw: and the exception left the call; Raise is the
\* call's own std::runtime_error).
Ok(h, s, n) == [h |-> h, s |-> s, out |-> "ok", n |-> n, exc |-> FALSE]
Throw(h, s) == [h |-> h, s |-> s, out |-> "throw", n |-> 0, exc |-> TRUE]
Raise(h, s) == [h |-> h, s |-> s, out |-> "throw", n |-> 0, exc |-> FALSE]
Fault(h, s) == [h |-> h, s |-> s, out |-> "fault", n |-> 0, exc |-> FALSE]
Swallowed(r) == [r EXCEPT !.exc = TRUE]

\* bigvector::size(), bigvector::capacity()
size(h, s) == IF s = Null THEN 0 ELSE h[s].size
capacity(h, s) == IF s = Null THEN 0 ELSE h[s].cap

\* The drop of the reference of the old block that ends push_back, reserve,
\* shrink_to_fit, insert and resize_job: free it when unique, else count down.
DropOld(h, s) ==
  IF h[s].rc = 1 THEN Delete(h, s) ELSE [h EXCEPT ![s].rc = Dec(h[s].rc)]

\* -------------------------------------------------- bigvector (lines 13-489)

\* An ensure-unique that never clones
unique_copy_lazy(h, s, f) == {Ok(h, s, 0)}

\* void unique_copy()
unique_copy(h, s, f) ==
  IF s = Null THEN {Ok(h, s, 0)}
  ELSE IF Dangling(h, s) THEN {Fault(h, s)}
  ELSE IF h[s].rc = 1 THEN {Ok(h, s, 0)}
  ELSE IF FreshIds(h) = {} THEN {}
  ELSE LET b == h[s]
           tmp == make_storage(h)
       IN IF b.size > Len(b.data) \/ b.size > b.cap THEN {Fault(h, s)}
          ELSE IF f \in 1..b.size THEN {Throw(h, s)}
          ELSE {Ok([h EXCEPT ![tmp] = Block(b.size, b.cap, 1,
                                            CopyInto(Blank(b.cap), 0, b.data, 0, b.size)),
                             ![s].rc = Dec(b.rc)],
                   tmp, b.size)}

\* bigvector(bigvector const &other)
copy_ctor(h, other) ==
  IF other = Null THEN {Ok(h, Null, 0)}
  ELSE IF Dangling(h, other) THEN {Fault(h, Null)}
  ELSE {Ok([h EXCEPT ![other].rc = Inc(h[other].rc)], other, 0)}

\* bigvector(InputIterator beg, InputIterator en), the range given as the
\* sequence r.  The block's header is never written: size_, capacity_ and
\* ref_count are whatever the memory held, and the copy runs over the new
\* block's own begin()..end(), not over the range.
range_ctor(h, r, f) ==
  IF Len(r) <= 0 THEN {Ok(h, Null, 0)}
  ELSE IF FreshIds(h) = {} THEN {}
  ELSE LET tmp == make_storage(h)
       IN UNION { IF sz > Len(r) THEN {Fault(h, Null)}
                  ELSE IF f \in 1..sz THEN {Throw(h, Null)}
                  ELSE {Ok([h EXCEPT ![tmp] = Block(sz, cp, rc, Blank(Len(r)))], tmp, sz)
                          : cp \in Indet, rc \in Indet}
                  : sz \in Indet }

\* bigvector(size_t cnt, T const &elem)
fill_ctor(h, cnt, elem, f) ==
  IF cnt = 0 THEN {Ok(h, Null, 0)}
  ELSE IF FreshIds(h) = {} THEN {}
  ELSE IF f \in 1..cnt THEN {Throw(h, Null)}
  ELSE LET tmp == make_storage(h)
       IN {Ok([h EXCEPT ![tmp] = Block(cnt, cnt, 1, FillInto(Blank(cnt), 0, cnt, elem))],
              tmp, cnt)}

\* bigvector &operator=(bigvector const &other).  The branch taken for a
\* non-null store frees the block whatever its ref_count; the branch taken
\* for a null store writes through the null pointer, which faults, or which
\* the compiler, free to assume it never runs, drops.
assign_op(h, s, other) ==
  IF other = s THEN {Ok(h, s, 0)}
  ELSE LET adopt(h1) ==
             IF other = Null THEN {Ok(h1, Null, 0)}
             ELSE IF Dangling(h1, other) THEN {Fault(h1, other)}
             ELSE {Ok([h1 EXCEPT ![other].rc = Inc(h1[other].rc)], other, 0)}
       IN IF s # Null
          THEN IF Dangling(h, s) \/ h[s].size > Len(h[s].data) THEN {Fault(h, s)}
               ELSE adopt(Delete(h, s))
          ELSE {Fault(h, s)} \cup adopt(h)

\* A destructor that frees the block whatever its ref_count
dtor_greedy(h, s) ==
  IF s = Null THEN {Ok(h, Null, 0)}
  ELSE IF Dangling(h, s) THEN {Fault(h, s)}
  ELSE {Ok(Delete(h, s), Null, 0)}

\* ~bigvector()
dtor(h, s) ==
  IF s = Null THEN {Ok(h, Null, 0)}
  ELSE IF Dangling(h, s) THEN {Fault(h, s)}
  ELSE IF h[s].rc > 1 THEN {Ok([h EXCEPT ![s].rc = Dec(h[s].rc)], Null, 0)}
  ELSE IF h[s].size > Len(h[s].data) THEN {Fault(h, s)}
  ELSE {Ok(Delete(h, s), Null, 0)}

\* T &operator[](size_t index), the reference then written with w (w = U:
\* only read).
index_mut(h, s, index, w, f) ==
  IF s # Null /\ Dangling(h, s) THEN {Fault(h, s)}
  ELSE IF s # Null /\ index >= h[s].size THEN {Raise(h, s)}
  ELSE UNION { IF r.out # "ok" THEN {r}
               ELSE IF r.s = Null \/ index >= Len(r.h[r.s].data) THEN {Fault(r.h, r.s)}
               ELSE {Ok(IF w = U THEN r.h ELSE [r.h EXCEPT ![r.s].data[index + 1] = w],
                        r.s, r.n)}
               : r \in unique_copy(h, s, f) }

\* T const &operator[](size_t index) const
index_const(h, s, index) ==
  IF s # Null /\ Dangling(h, s) THEN {Fault(h, s)}
  ELSE IF s # Null /\ index >= h[s].size THEN {Raise(h, s)}
  ELSE IF s = Null \/ index >= Len(h[s].data) THEN {Fault(h, s)}
  ELSE {Ok(h, s, 0)}

\* T &front()
front(h, s, w, f) ==
  UNION { IF r.out # "ok" THEN {r} ELSE index_mut(r.h, r.s, 0, w, 0)
          : r \in unique_copy(h, s, f) }

\* T &back(): the index is store->size_ - 1, read before any check
back(h, s, w, f) ==
  UNION { IF r.out # "ok" THEN {r}
          ELSE IF r.s = Null THEN {Fault(r.h, r.s)}
          ELSE index_mut(r.h, r.s, Dec(r.h[r.s].size), w, 0)
          : r \in unique_copy(h, s, f) }

\* T *data(), the pointer then written at index with w (w = U: not written)
data_mut(h, s, index, w, f) ==
  UNION { IF r.out # "ok" \/ w = U THEN {r}
          ELSE IF r.s = Null \/ index >= Len(r.h[r.s].data) THEN {Fault(r.h, r.s)}
          ELSE {Ok([r.h EXCEPT ![r.s].data[index + 1] = w], r.s, r.n)}
          : r \in unique_copy(h, s, f) }

\* A growth by one slot
cap_needed_tight(h, s) ==
  IF size(h, s) = capacity(h, s) THEN capacity(h, s) + 1 ELSE capacity(h, s)

\* The capacity push_back and insert allocate when they reallocate.
cap_needed(h, s) ==
  IF size(h, s) = capacity(h, s)
  THEN (IF capacity(h, s) > 0 THEN capacity(h, s) * 2 ELSE 2)
  ELSE capacity(h, s)

\* push_back with the count written before the element is built and not
\* taken back when the construction fails
push_back_torn(h, s, elem, f) ==
  IF s = Null \/ Dangling(h, s) THEN {Ok(h, s, 0)}
  ELSE IF f = 1 THEN {Throw([h EXCEPT ![s].size = Inc(h[s].size)], s)}
  ELSE {Ok([h EXCEPT ![s].size = Inc(h[s].size)], s, 1)}

\* void push_back(T const &elem)
push_back(h, s, elem, f) ==
  IF Dangling(h, s) THEN {Fault(h, s)}
  ELSE IF size(h, s) = capacity(h, s) \/ h[s].rc > 1
  THEN LET cn == cap_needed(h, s)
           n == size(h, s)
           tmp == make_storage(h)
       IN IF FreshIds(h) = {} THEN {}
          ELSE IF n >= cn \/ (s # Null /\ n > Len(h[s].data)) THEN {Fault(h, s)}
          ELSE IF f \in 1..(n + 1) THEN {Throw(h, s)}
          ELSE LET d0 == IF s = Null THEN Blank(cn)
                         ELSE CopyInto(Blank(cn), 0, h[s].data, 0, n)
                   d1 == [d0 EXCEPT ![n + 1] = elem]
                   h1 == [h EXCEPT ![tmp] =
                            Block(IF s = Null THEN 1 ELSE h[s].size + 1, cn, 1, d1)]
               IN {Ok(IF s = Null THEN h1 ELSE DropOld(h1, s), tmp, n + 1)}
  ELSE IF h[s].size >= Len(h[s].data) THEN {Fault(h, s)}
  ELSE IF f = 1 THEN {Throw(h, s)}
  ELSE {Ok([h EXCEPT ![s].data[h[s].size + 1] = elem, ![s].size = h[s].size + 1], s, 1)}

\* A pop_back that gives the last slot back: the block it leaves has one
\* slot fewer
pop_back_trim(h, s, f) ==
  UNION { IF r.out # "ok" THEN {r}
          ELSE IF r.s = Null THEN {Fault(r.h, r.s)}
          ELSE LET b == r.h[r.s]
               IN IF b.size = 0 \/ b.size > Len(b.data) THEN {Fault(r.h, r.s)}
                  ELSE {Ok([r.h EXCEPT ![r.s].size = Dec(b.size),
                                       ![r.s].cap = Dec(b.cap),
                                       ![r.s].data = Slice(b.data, 1, Len(b.data) - 1)],
                           r.s, r.n)}
          : r \in unique_copy(h, s, f) }

\* void pop_back(): no check of size_; on a block of size 0 the count wraps
\* and the slot destroyed lies before the block's first.
pop_back(h, s, f) ==
  UNION { IF r.out # "ok" THEN {r}
          ELSE IF r.s = Null THEN {Fault(r.h, r.s)}
          ELSE LET b == r.h[r.s]
               IN IF b.size = 0
                  THEN {Fault(r.h, r.s), Ok([r.h EXCEPT ![r.s].size = Dec(b.size)], r.s, r.n)}
                  ELSE IF b.size > Len(b.data) THEN {Fault(r.h, r.s)}
                  ELSE {Ok([r.h EXCEPT ![r.s].size = Dec(b.size),
                                       ![r.s].data[b.size] = U], r.s, r.n)}
          : r \in unique_copy(h, s, f) }

\* void reserve(size_t cap)
reserve(h, s, cap, f) ==
  IF Dangling(h, s) THEN {Fault(h, s)}
  ELSE IF cap <= capacity(h, s) THEN {Ok(h, s, 0)}
  ELSE IF FreshIds(h) = {} THEN {}
  ELSE LET n == size(h, s)
           tmp == make_storage(h)
       IN IF n > cap \/ (s # Null /\ n > Len(h[s].data)) THEN {Fault(h, s)}
          ELSE IF f \in 1..n THEN {Throw(h, s)}
          ELSE LET d0 == IF s = Null THEN Blank(cap)
                         ELSE CopyInto(Blank(cap), 0, h[s].data, 0, n)
                   h1 == [h EXCEPT ![tmp] = Block(n, cap, 1, d0)]
               IN {Ok(IF s = Null THEN h1 ELSE DropOld(h1, s), tmp, n)}

\* void shrink_to_fit().  With size 0 and a unique block the block is freed
\* and store keeps pointing at it.
shrink_to_fit(h, s, f) ==
  IF Dangling(h, s) THEN {Fault(h, s)}
  ELSE IF size(h, s) = capacity(h, s) THEN {Ok(h, s, 0)}
  ELSE IF size(h, s) = 0
  THEN IF h[s].rc = 1 THEN {Ok(Delete(h, s), s, 0)}
       ELSE {Ok([h EXCEPT ![s].rc = Dec(h[s].rc)], Null, 0)}
  ELSE IF FreshIds(h) = {} THEN {}
  ELSE LET n == h[s].size
           tmp == make_storage(h)
       IN IF n > Len(h[s].data) THEN {Fault(h, s)}
          ELSE IF f \in 1..n THEN {Throw(h, s)}
          ELSE {Ok(DropOld([h EXCEPT ![tmp] =
                              Block(n, n, 1, CopyInto(Blank(n), 0, h[s].data, 0, n))], s),
                   tmp, n)}

\* A shorten that truncates the block where it is, shared or not
shorten_inplace(h, s, sz, f) ==
  IF Dangling(h, s) THEN {Fault(h, s)}
  ELSE IF sz = size(h, s) THEN {Ok(h, s, 0)}
  ELSE {Ok([h EXCEPT ![s].data = DestroyRange(h[s].data, sz, h[s].size),
                     ![s].size = sz], s, 0)}

\* void shorten(size_t sz), called with sz <= size()
shorten(h, s, sz, f) ==
  IF Dangling(h, s) THEN {Fault(h, s)}
  ELSE IF sz = size(h, s) THEN {Ok(h, s, 0)}
  ELSE IF h[s].rc = 1
  THEN IF h[s].size > Len(h[s].data) THEN {Fault(h, s)}
       ELSE {Ok([h EXCEPT ![s].data = DestroyRange(h[s].data, sz, h[s].size),
                          ![s].size = sz], s, 0)}
  ELSE IF FreshIds(h) = {} THEN {}
  ELSE LET b == h[s]
           tmp == make_storage(h)
       IN IF sz > Len(b.data) \/ sz > b.cap THEN {Fault(h, s)}
          ELSE IF f \in 1..sz THEN {Throw(h, s)}
          ELSE {Ok([h EXCEPT ![tmp] = Block(sz, b.cap, 1,
                                            CopyInto(Blank(b.cap), 0, b.data, 0, sz)),
                             ![s].rc = Dec(b.rc)],
                   tmp, sz)}

\* void resize_job(size_t sz, T const &elem), called with sz > size().  The
\* handler of a failed fill frees tmp and does not rethrow: the function
\* goes on to write tmp's header (a write to freed memory) and to adopt tmp.
resize_job(h, s, sz, elem, f) ==
  IF Dangling(h, s) THEN {Fault(h, s)}
  ELSE LET new_cap == Max(capacity(h, s), sz)
           n == size(h, s)
           tmp == make_storage(h)
       IN IF s = Null \/ new_cap > capacity(h, s) \/ h[s].rc > 1
          THEN IF FreshIds(h) = {} THEN {}
               ELSE IF s # Null /\ (n > Len(h[s].data) \/ n > new_cap) THEN {Fault(h, s)}
               ELSE IF f \in 1..n THEN {Throw(h, s)}
               ELSE IF f \in (n + 1)..sz
               THEN LET h1 == [h EXCEPT ![tmp] = FreedBlock]
                    IN {Swallowed(Fault(h, s)),
                        Swallowed(Ok(IF s = Null THEN h1 ELSE DropOld(h1, s), tmp, sz))}
               ELSE LET d0 == IF s = Null THEN Blank(new_cap)
                              ELSE CopyInto(Blank(new_cap), 0, h[s].data, 0, n)
                        h1 == [h EXCEPT ![tmp] =
                                 Block(sz, new_cap, 1, FillInto(d0, n, sz - n, elem))]
                    IN {Ok(IF s = Null THEN h1 ELSE DropOld(h1, s), tmp, sz)}
          ELSE IF sz > Len(h[s].data) THEN {Fault(h, s)}
          ELSE IF f \in 1..(sz - n) THEN {Throw(h, s)}
          ELSE {Ok([h EXCEPT ![s].data = FillInto(h[s].data, n, sz - n, elem),
                             ![s].size = sz], s, sz - n)}

\* void resize(size_t sz, T const &elem)
resize(h, s, sz, elem, f) ==
  IF sz <= size(h, s) THEN shorten(h, s, sz, f) ELSE resize_job(h, s, sz, elem, f)

\* std::rotate(d + index, d + last - 1, d + last): the last of the slots
\* index..last-1 (from 0) moves to the front of them
RotateLast(d, index, last) ==
  [i \in 1..Len(d) |-> IF i = index + 1 THEN d[last]
                       ELSE IF i > index + 1 /\ i <= last THEN d[i - 1]
                       ELSE d[i]]

\* T *insert(T const *pos, T const &elem), pos = begin() + index
insert(h, s, index, elem, f) ==
  IF Dangling(h, s) THEN {Fault(h, s)}
  ELSE IF index = size(h, s) THEN push_back(h, s, elem, f)
  ELSE IF size(h, s) = capacity(h, s) \/ h[s].rc > 1
  THEN LET cn == cap_needed(h, s)
           n == h[s].size
           tmp == make_storage(h)
       IN IF FreshIds(h) = {} THEN {}
          ELSE IF n >= cn \/ n > Len(h[s].data) \/ index > n THEN {Fault(h, s)}
          ELSE IF f \in 1..(n + 1) THEN {Throw(h, s)}
          ELSE LET d0 == CopyInto(Blank(cn), 0, h[s].data, 0, index)
                   d1 == [d0 EXCEPT ![index + 1] = elem]
                   d2 == CopyInto(d1, index + 1, h[s].data, index, n - index)
               IN {Ok(DropOld([h EXCEPT ![tmp] = Block(n + 1, cn, 1, d2)], s), tmp, n + 1)}
  ELSE IF h[s].size >= Len(h[s].data) \/ index > h[s].size THEN {Fault(h, s)}
  ELSE IF f = 1 THEN {Throw(h, s)}
  ELSE LET n == h[s].size
           d1 == [h[s].data EXCEPT ![n + 1] = elem]
       IN {Ok([h EXCEPT ![s].data = RotateLast(d1, index, n + 1), ![s].size = n + 1], s, 1)}

\* T *erase(T const *beg, T const *en), beg = begin() + left, en = begin() +
\* right.  On a shared block with en # end(): the handler of a failed copy
\* of the prefix frees tmp and does not rethrow; the tail is copied over the
\* shared block's own slots (store->data + left), not into tmp.
erase(h, s, left, right, f) ==
  IF left = right THEN {Ok(h, s, 0)}
  ELSE IF s = Null \/ Dangling(h, s) THEN {Fault(h, s)}
  ELSE IF right = h[s].size
  THEN UNION { IF r.out # "ok" THEN {r}
               ELSE LET b == r.h[r.s]
                    IN IF b.size > Len(b.data) THEN {Fault(r.h, r.s)}
                       ELSE {Ok([r.h EXCEPT ![r.s].data = DestroyRange(b.data, left, b.size),
                                            ![r.s].size = b.size - (right - left)],
                                r.s, r.n)}
               : r \in unique_copy(h, s, f) }
  ELSE IF h[s].rc > 1
  THEN LET b == h[s]
           n == b.size
           tail == n - right
           tmp == make_storage(h)
       IN IF FreshIds(h) = {} THEN {}
          ELSE IF n > Len(b.data) \/ right > n \/ left > b.cap THEN {Fault(h, s)}
          ELSE IF f \in (left + 1)..(left + tail)
          THEN \* the copy of the tail fails at its k-th element: the k-1
               \* built over the shared block are destroyed, tmp is freed
               LET k == f - left
               IN {Throw([h EXCEPT ![s].data = DestroyRange(b.data, left, left + k - 1)], s)}
          ELSE LET swallowed == f \in 1..left
                   old == [b EXCEPT !.data = CopyInto(b.data, left, b.data, right, tail),
                                    !.rc = Dec(b.rc)]
                   new == IF swallowed THEN FreedBlock
                          ELSE Block(n - right + left, b.cap, 1,
                                     CopyInto(Blank(b.cap), 0, b.data, 0, left))
                   h1 == [h EXCEPT ![s] = old, ![tmp] = new]
               IN IF swallowed THEN {Swallowed(Fault(h, s)),
                                     Swallowed(Ok(h1, tmp, left + tail))}
                  ELSE {Ok(h1, tmp, left + tail)}
  ELSE LET b == h[s]
           n == b.size
       IN IF n > Len(b.data) \/ right > n THEN {Fault(h, s)}
          ELSE LET d0 == CopyInto(b.data, left, b.data, right, n - right)
               IN {Ok([h EXCEPT ![s].data = DestroyRange(d0, n - right + left, n),
                                ![s].size = n - (right - left)], s, 0)}

\* friend bool operator==(bigvector const &a, bigvector const &b): the set
\* of the answers it can give ("true", "false"), "fault" among them.  An
\* element that was never initialised compares either way.
ElemEq(x, y) == IF x = U \/ y = U THEN {TRUE, FALSE} ELSE {x = y}

\* std::equal(a, a + n, b, b + n) over the first n slots of two arrays
RangeEq(da, db, n) ==
  (IF \A i \in 1..n : TRUE \in ElemEq(da[i], db[i]) THEN {"true"} ELSE {})
  \cup (IF \E i \in 1..n : FALSE \in ElemEq(da[i], db[i]) THEN {"false"} ELSE {})

big_equal(h, a, b) ==
  IF a = b THEN {"true"}
  ELSE IF a = Null \/ b = Null \/ Dangling(h, a) \/ Dangling(h, b) THEN {"fault"}
  ELSE IF h[a].size # h[b].size THEN {"false"}
  ELSE IF h[a].size > Len(h[a].data) \/ h[b].size > Len(h[b].data) THEN {"fault"}
  ELSE RangeEq(h[a].data, h[b].data, h[a].size)

\* ------------------------------------------------- vector (lines 491-781)
\* std::variant<std::monostate, T, bigvector> vec_data: the alternative held
\* (tag "Empty", "Single", "Shared"), the inline element and the bigvector's
\* store.  An object that is a bare bigvector has tag "Big"; a variable that
\* holds no object has tag "none".
Empty == [tag |-> "Empty", val |-> U, store |-> Null]
Single(x) == [tag |-> "Single", val |-> x, store |-> Null]
Shared(p) == [tag |-> "Shared", val |-> U, store |-> p]
Big(p) == [tag |-> "Big", val |-> U, store |-> p]
None == [tag |-> "none", val |-> U, store |-> Null]

FR(h, v, out) == [h |-> h, v |-> v, out |-> out, exc |-> FALSE]
FRx(h, v, out, exc) == [h |-> h, v |-> v, out |-> out, exc |-> exc]

\* The result of a call on the bigvector that v holds
Lift(v, R) == {FRx(r.h, [v EXCEPT !.store = r.s], r.out, r.exc) : r \in R}

\* What is left of the failure ordinal f after n constructions went well
Rest(f, n) == IF f > n THEN f - n ELSE 0

\* "vec_data = tmp;" where vec_data holds no bigvector, then the end of
\* tmp's scope: the variant copy-constructs its bigvector from tmp, and tmp
\* is destroyed.
AdoptTmp(h, t) ==
  UNION { IF c.out # "ok" THEN {FR(c.h, Shared(c.s), c.out)}
          ELSE {FR(d.h, Shared(c.s), d.out) : d \in dtor(c.h, t)}
          : c \in copy_ctor(h, t) }

\* An exception leaves the scope of tmp: tmp is destroyed, vec_data is as
\* it was.
UnwindTmp(h, t, v) ==
  {FRx(d.h, v, IF d.out = "ok" THEN "throw" ELSE d.out, TRUE) : d \in dtor(h, t)}

\* After a call on tmp with result r: adopt tmp, or unwind
TmpDone(r, v) ==
  IF r.out = "ok" THEN {[a EXCEPT !.exc = r.exc] : a \in AdoptTmp(r.h, r.s)}
  ELSE IF r.out = "throw" THEN UnwindTmp(r.h, r.s, v)
  ELSE {FRx(r.h, v, r.out, r.exc)}

\* vector::size(), vector::capacity()
v_size(h, v) ==
  IF v.tag = "Empty" THEN 0 ELSE IF v.tag = "Single" THEN 1 ELSE size(h, v.store)
v_capacity(h, v) ==
  IF v.tag = "Empty" THEN 0 ELSE IF v.tag = "Single" THEN 1 ELSE capacity(h, v.store)

\* T &vector::operator[](size_t index): the inline element whatever the
\* index; std::get<2> throws when the variant is empty
v_index_mut(h, v, index, w, f) ==
  IF v.tag = "Single" THEN {FR(h, IF w = U THEN v ELSE Single(w), "ok")}
  ELSE IF v.tag = "Empty" THEN {FR(h, v, "throw")}
  ELSE Lift(v, index_mut(h, v.store, index, w, f))

\* T const &vector::operator[](size_t index) const
v_index_const(h, v, index) ==
  IF v.tag = "Single" THEN {FR(h, v, "ok")}
  ELSE IF v.tag = "Empty" THEN {FR(h, v, "throw")}
  ELSE Lift(v, index_const(h, v.store, index))

\* T &vector::front(), T &vector::back()
v_front(h, v, w, f) ==
  IF v.tag = "Single" THEN {FR(h, IF w = U THEN v ELSE Single(w), "ok")}
  ELSE IF v.tag = "Empty" THEN {FR(h, v, "throw")}
  ELSE Lift(v, front(h, v.store, w, f))

v_back(h, v, w, f) ==
  IF v.tag = "Single" THEN {FR(h, IF w = U THEN v ELSE Single(w), "ok")}
  ELSE IF v.tag = "Empty" THEN {FR(h, v, "throw")}
  ELSE Lift(v, back(h, v.store, w, f))

\* T *vector::data(), the pointer then written at index (w = U: not written)
v_data_mut(h, v, index, w, f) ==
  IF v.tag = "Empty" THEN {FR(h, v, "ok")}
  ELSE IF v.tag = "Single" THEN {FR(h, IF w = U THEN v ELSE Single(w), "ok")}
  ELSE Lift(v, data_mut(h, v.store, index, w, f))

\* A push_back that has no inline representation: the first element
\* already goes to a block
v_push_back_eager(h, v, elem, f) ==
  IF v.tag = "Empty" THEN UNION { TmpDone(r, v) : r \in push_back(h, Null, elem, f) }
  ELSE IF v.tag = "Single"
  THEN UNION { IF r1.out # "ok" THEN TmpDone(r1, v)
               ELSE UNION { TmpDone(r2, v)
                            : r2 \in push_back(r1.h, r1.s, elem, Rest(f, r1.n)) }
               : r1 \in push_back(h, Null, v.val, f) }
  ELSE Lift(v, push_back(h, v.store, elem, f))

\* void vector::push_back(T const &elem)
v_push_back(h, v, elem, f) ==
  IF v.tag = "Empty" THEN {IF f = 1 THEN FRx(h, v, "throw", TRUE) ELSE FR(h, Single(elem), "ok")}
  ELSE IF v.tag = "Single"
  THEN UNION { IF r1.out # "ok" THEN TmpDone(r1, v)
               ELSE UNION { TmpDone(r2, v)
                            : r2 \in push_back(r1.h, r1.s, elem, Rest(f, r1.n)) }
               : r1 \in push_back(h, Null, v.val, f) }
  ELSE Lift(v, push_back(h, v.store, elem, f))

\* void vector::pop_back()
v_pop_back(h, v, f) ==
  IF v.tag = "Empty" THEN {FR(h, v, "throw")}
  ELSE IF v.tag = "Single" THEN {FR(h, Empty, "ok")}
  ELSE Lift(v, pop_back(h, v.store, f))

\* void vector::reserve(size_t cap)
v_reserve(h, v, cap, f) ==
  IF v.tag = "Empty"
  THEN IF cap = 0 THEN {FR(h, v, "ok")}
       ELSE UNION { TmpDone(r, v) : r \in reserve(h, Null, cap, f) }
  ELSE IF v.tag = "Single"
  THEN IF cap < 1 THEN {FR(h, v, "ok")}
       ELSE UNION { IF r1.out # "ok" THEN TmpDone(r1, v)
                    ELSE UNION { TmpDone(r2, v)
                                 : r2 \in reserve(r1.h, r1.s, cap, Rest(f, r1.n)) }
                    : r1 \in push_back(h, Null, v.val, f) }
  ELSE Lift(v, reserve(h, v.store, cap, f))

\* void vector::shrink_to_fit()
v_shrink_to_fit(h, v, f) ==
  IF v.tag \in {"Empty", "Single"} THEN {FR(h, v, "ok")}
  ELSE Lift(v, shrink_to_fit(h, v.store, f))

\* void vector::resize_job(size_t sz, T const &elem), behind both resize
v_resize(h, v, sz, elem, f) ==
  IF v.tag = "Empty"
  THEN IF sz = 0 THEN {FR(h, v, "ok")}
       ELSE IF sz = 1 THEN {IF f = 1 THEN FRx(h, v, "throw", TRUE) ELSE FR(h, Single(elem), "ok")}
       ELSE UNION { TmpDone(r, v) : r \in resize(h, Null, sz, elem, f) }
  ELSE IF v.tag = "Single"
  THEN IF sz = 0 THEN {FR(h, Empty, "ok")}
       ELSE IF sz = 1 THEN {FR(h, v, "ok")}
       ELSE UNION { IF r1.out # "ok" THEN TmpDone(r1, v)
                    ELSE UNION { TmpDone(r2, v)
                                 : r2 \in resize(r1.h, r1.s, sz, elem, Rest(f, r1.n)) }
                    : r1 \in push_back(h, Null, v.val, f) }
  ELSE Lift(v, resize(h, v.store, sz, elem, f))

\* iterator vector::insert(const_iterator pos, T const &val), pos = begin()
\* + index on entry.  "pos - begin()" calls the non-const begin(), that is
\* data(), that is unique_copy(): on a shared block the store is replaced
\* and pos, still pointing into the old block, is handed to
\* bigvector::insert, which walks from the new block towards it.
v_insert(h, v, index, elem, f) ==
  IF v.tag = "Empty" THEN {IF f = 1 THEN FRx(h, v, "throw", TRUE) ELSE FR(h, Single(elem), "ok")}
  ELSE IF v.tag = "Single"
  THEN UNION { IF r1.out # "ok" THEN TmpDone(r1, v)
               ELSE UNION { TmpDone(r2, v)
                            : r2 \in insert(r1.h, r1.s, index, elem, Rest(f, r1.n)) }
               : r1 \in push_back(h, Null, v.val, f) }
  ELSE IF v.tag = "Big" THEN Lift(v, insert(h, v.store, index, elem, f))
  ELSE UNION { IF r.out # "ok" THEN Lift(v, {r})
               ELSE IF r.s # v.store THEN {FR(r.h, Shared(r.s), "fault")}
               ELSE Lift(v, insert(r.h, r.s, index, elem, f))
               : r \in unique_copy(h, v.store, f) }

\* iterator vector::erase(const_iterator beg, const_iterator en).  The
\* empty range returns through the non-const begin(), that is unique_copy().
v_erase(h, v, left, right, f) ==
  IF v.tag = "Big" THEN Lift(v, erase(h, v.store, left, right, f))
  ELSE IF left = right
  THEN IF v.tag = "Shared" THEN Lift(v, unique_copy(h, v.store, f)) ELSE {FR(h, v, "ok")}
  ELSE IF v.tag = "Single" THEN {FR(h, Empty, "ok")}
  ELSE IF v.tag = "Empty" THEN {FR(h, v, "throw")}
  ELSE Lift(v, erase(h, v.store, left, right, f))

\* void vector::clear(); bigvector::clear() is resize(0), read as a resize
\* to 0 with any fill value (the call as written names no fill value)
v_clear(h, v, f) ==
  IF v.tag \in {"Empty", "Single"} THEN {FR(h, Empty, "ok")}
  ELSE Lift(v, resize(h, v.store, 0, U, f))

\* vector(vector const &other) = default
v_copy_ctor(h, other, f) ==
  IF other.tag \in {"Shared", "Big"}
  THEN Lift(other, copy_ctor(h, other.store))
  ELSE IF other.tag = "Single" /\ f = 1 THEN {FRx(h, None, "throw", TRUE)}
  ELSE {FR(h, other, "ok")}

\* ~vector() = the variant's destructor
v_dtor(h, v) ==
  IF v.tag \in {"Shared", "Big"}
  THEN {FR(r.h, None, r.out) : r \in dtor(h, v.store)}
  ELSE {FR(h, None, "ok")}

\* vector &operator=(vector const &other) = default: the variant's copy
\* assignment.  The same alternative on both sides: the alternative's own
\* assignment; else the held value is destroyed and the new one
\* copy-constructed.
v_assign_op(h, v, other) ==
  IF v.tag \in {"Shared", "Big"} /\ other.tag = v.tag
  THEN Lift(v, assign_op(h, v.store, other.store))
  ELSE IF v.tag = other.tag THEN {FR(h, other, "ok")}
  ELSE UNION { IF d.out # "ok" THEN {FR(d.h, v, d.out)}
               ELSE v_copy_ctor(d.h, other, 0)
               : d \in v_dtor(h, v) }

\* vector(InputIterator beg, InputIterator en): "vec_data = bigvector(beg,
\* en)" copy-constructs the variant's bigvector from the temporary, which
\* is then destroyed.
v_range_ctor(h, r, f) ==
  IF Len(r) > 1
  THEN UNION { IF b.out # "ok" THEN {FRx(b.h, None, b.out, b.exc)} ELSE AdoptTmp(b.h, b.s)
               : b \in range_ctor(h, r, f) }
  ELSE IF Len(r) = 1
  THEN {IF f = 1 THEN FRx(h, None, "throw", TRUE) ELSE FR(h, Single(r[1]), "ok")}
  ELSE {FR(h, Empty, "ok")}

\* void vector::assign(InputIterator beg, InputIterator en):
\* "*this = vector(beg, en);", then the temporary is destroyed
v_assign(h, v, r, f) ==
  UNION { IF t.out # "ok" THEN {FRx(t.h, v, t.out, t.exc)}
          ELSE UNION { IF a.out # "ok" THEN {a}
                       ELSE {FR(d.h, a.v, d.out) : d \in v_dtor(a.h, t.v)}
                       : a \in v_assign_op(t.h, v, t.v) }
          : t \in v_range_ctor(h, r, f) }

\* friend bool operator==(vector const &a, vector const &b): the answers
View(h, v) ==
  IF v.tag = "Single" THEN <<v.val>>
  ELSE IF v.tag \in {"Shared", "Big"} /\ v.store # Null /\ h[v.store].st = "live"
          /\ h[v.store].size <= Len(h[v.store].data)
  THEN Elems(h, v.store)
  ELSE << >>

v_equal(h, a, b) ==
  IF a.tag \in {"Shared", "Big"} /\ b.tag = a.tag THEN big_equal(h, a.store, b.store)
  ELSE IF Dangling(h, a.store) \/ Dangling(h, b.store) THEN {"fault"}
  ELSE IF size(h, a.store) > Len(View(h, a)) \/ size(h, b.store) > Len(View(h, b))
  THEN {"fault"}
  ELSE IF Len(View(h, a)) # Len(View(h, b)) THEN {"false"}
  ELSE RangeEq(View(h, a), View(h, b), Len(View(h, a)))

\* ------------------------------------------------------ the state machine
\* obj: the program's variables, each holding a vector, a bare bigvector or
\* nothing; heap: the blocks; last: the call made last (the operation, its
\* outcome, whether an element construction failed in it).
VARIABLES obj, heap, last

vars == <<obj, heap, last>>

Refs(ob, b) == {o \in Objs : ob[o].tag \in {"Shared", "Big"} /\ ob[o].store = b}

\* A freed block that no variable points to any more is forgotten: its id
\* can name a later allocation.
Forget(h, ob) ==
  [b \in Blocks |-> IF h[b].st = "freed" /\ Refs(ob, b) = {} THEN NoBlock ELSE h[b]]

\* Addresses carry no meaning: a block that variables point to is renamed
\* to the number of the first of them, a live block that none points to (a
\* leak) to a number above NObj, so that two states that differ only in the
\* addresses operator new returned are one state.
Holds(ob, o) == ob[o].tag \in {"Shared", "Big"} /\ ob[o].store # Null
FirstRef(ob, o) ==
  CHOOSE q \in Objs : /\ Holds(ob, q) /\ ob[q].store = ob[o].store
                      /\ \A k \in 1..(q - 1) : ~(Holds(ob, k) /\ ob[k].store = ob[o].store)
Leaked(h, ob) == {b \in Blocks : h[b].st # "free" /\ Refs(ob, b) = {}}
NthLeaked(h, ob, n) ==
  CHOOSE b \in Leaked(h, ob) : Cardinality({c \in Leaked(h, ob) : c < b}) = n - 1

Renumber(h, ob) ==
  LET nleaked == Cardinality(Leaked(h, ob))
  IN [h |-> [i \in Blocks |->
               IF i <= NObj
               THEN (IF Holds(ob, i) /\ FirstRef(ob, i) = i THEN h[ob[i].store] ELSE NoBlock)
               ELSE IF i - NObj > nleaked THEN NoBlock
               ELSE h[NthLeaked(h, ob, i - NObj)]],
      ob |-> [o \in Objs |->
               IF Holds(ob, o) THEN [ob[o] EXCEPT !.store = FirstRef(ob, o)] ELSE ob[o]]]

Normalize(h, ob) ==
  CHOOSE st \in UNION {{Renumber(hf, ob)} : hf \in {Forget(h, ob)}} : TRUE

CapOK(h, bound) == \A b \in Blocks : h[b].st = "live" => h[b].cap <= bound

Call(op, r) == [op |-> op, out |-> r.out, exc |-> r.exc]

Running == last.out # "fault"
Alive(o) == obj[o].tag # "none"
IsVec(o) == obj[o].tag \in {"Empty", "Single", "Shared"}
IsBig(o) == obj[o].tag = "Big"
Min(a, b) == IF a <= b THEN a ELSE b
SizeOf(o) == v_size(heap, obj[o])
CapOf(o) == v_capacity(heap, obj[o])

\* The call op on variable o with the results R, none of which lets a
\* block grow beyond bound.  A fault stops the run at the call.
Apply(op, o, R, bound) ==
  \E r \in R :
    /\ CapOK(r.h, bound)
    /\ IF r.out = "fault" THEN obj' = obj /\ heap' = heap
       ELSE \E st \in {Normalize(r.h, [obj EXCEPT ![o] = r.v])} :
              obj' = st.ob /\ heap' = st.h
    /\ last' = Call(op, r)

Ranges(V) == {<< >>} \cup {<<x>> : x \in V} \cup {<<x, y>> : x \in V, y \in V}

Init ==
  /\ obj = [o \in Objs |-> None]
  /\ heap = [b \in Blocks |-> NoBlock]
  /\ last = [op |-> "init", out |-> "ok", exc |-> FALSE]

\* vector() noexcept = default
CtorEmpty(o) ==
  /\ Running /\ ~Alive(o)
  /\ Apply("vector", o, {FR(heap, Empty, "ok")}, MaxCap)

\* bigvector() noexcept = default
CtorBig(o) ==
  /\ Running /\ ~Alive(o)
  /\ Apply("bigvector", o, {FR(heap, Big(Null), "ok")}, MaxCap)

\* bigvector(size_t cnt, T const &elem)
CtorFill(o, V) ==
  /\ Running /\ ~Alive(o)
  /\ \E cnt \in 0..2, elem \in V, f \in Fails :
       Apply("fill", o, Lift(Big(Null), fill_ctor(heap, cnt, elem, f)), MaxCap)

\* vector(InputIterator beg, InputIterator en)
CtorRange(o, V) ==
  /\ Running /\ ~Alive(o)
  /\ \E r \in Ranges(V), f \in Fails :
       Apply("range", o, v_range_ctor(heap, r, f), MaxCap)

\* bigvector(InputIterator beg, InputIterator en) for a bare bigvector; a
\* constructor that throws leaves no object
CtorBigRange(o, V) ==
  /\ Running /\ ~Alive(o)
  /\ \E r \in Ranges(V), f \in Fails :
       Apply("big_range", o,
             {FRx(b.h, IF b.out = "ok" THEN Big(b.s) ELSE None, b.out, b.exc)
                : b \in range_ctor(heap, r, f)},
             MaxCap)

\* vector(vector const &other), bigvector(bigvector const &other)
CopyCtor(o, p) ==
  /\ Running /\ ~Alive(o) /\ Alive(p)
  /\ \E f \in Fails : Apply("copy", o, v_copy_ctor(heap, obj[p], f), MaxCap)

\* ~vector(), ~bigvector()
Dtor(o) ==
  /\ Running /\ Alive(o)
  /\ Apply("dtor", o, v_dtor(heap, obj[o]), MaxCap)

\* operator=(other), between two variables of the same type
Assign(o, p) ==
  /\ Running /\ Alive(o) /\ Alive(p) /\ IsBig(o) = IsBig(p)
  /\ Apply("assign_op", o, v_assign_op(heap, obj[o], obj[p]), MaxCap)

\* friend void swap(a, b)
Swap(o, p) ==
  /\ Running /\ Alive(o) /\ Alive(p) /\ o # p /\ IsBig(o) = IsBig(p)
  /\ \E st \in {Normalize(heap, [obj EXCEPT ![o] = obj[p], ![p] = obj[o]])} :
       obj' = st.ob /\ heap' = st.h
  /\ last' = [op |-> "swap", out |-> "ok", exc |-> FALSE]

PushBack(o, V, bound) ==
  /\ Running /\ Alive(o)
  /\ \E elem \in V, f \in Fails :
       Apply("push_back", o, v_push_back(heap, obj[o], elem, f), bound)

PopBack(o) ==
  /\ Running /\ Alive(o)
  /\ \E f \in Fails : Apply("pop_back", o, v_pop_back(heap, obj[o], f), MaxCap)

Insert(o, V) ==
  /\ Running /\ Alive(o)
  /\ \E index \in 0..Min(SizeOf(o), MaxCap), elem \in V, f \in Fails :
       Apply("insert", o, v_insert(heap, obj[o], index, elem, f), MaxCap)

Erase(o) ==
  /\ Running /\ Alive(o)
  /\ \E right \in 0..Min(SizeOf(o), MaxCap), f \in Fails :
       \E left \in 0..right :
         Apply("erase", o, v_erase(heap, obj[o], left, right, f), MaxCap)

Resize(o, V) ==
  /\ Running /\ Alive(o)
  /\ \E sz \in 0..MaxCap, elem \in V, f \in Fails :
       Apply("resize", o, v_resize(heap, obj[o], sz, elem, f), MaxCap)

Clear(o) ==
  /\ Running /\ Alive(o)
  /\ \E f \in Fails : Apply("clear", o, v_clear(heap, obj[o], f), MaxCap)

Reserve(o, bound) ==
  /\ Running /\ Alive(o)
  /\ \E cap \in 0..bound, f \in Fails :
       Apply("reserve", o, v_reserve(heap, obj[o], cap, f), bound)

ShrinkToFit(o) ==
  /\ Running /\ Alive(o)
  /\ \E f \in Fails :
       Apply("shrink_to_fit", o, v_shrink_to_fit(heap, obj[o], f), MaxCap)

\* vector::assign(beg, en)
AssignRange(o, V) ==
  /\ Running /\ IsVec(o)
  /\ \E r \in Ranges(V), f \in Fails :
       Apply("assign", o, v_assign(heap, obj[o], r, f), MaxCap)

\* operator[](index), then a write of w through the reference (w = U: none)
IndexMut(o, V) ==
  /\ Running /\ Alive(o)
  /\ \E index \in 0..MaxCap, w \in V \cup {U}, f \in Fails :
       Apply("index_mut", o, v_index_mut(heap, obj[o], index, w, f), MaxCap)

\* operator[](index) const
IndexConst(o) ==
  /\ Running /\ Alive(o)
  /\ \E index \in 0..MaxCap :
       Apply("index_const", o, v_index_const(heap, obj[o], index), MaxCap)

Front(o, V) ==
  /\ Running /\ Alive(o)
  /\ \E w \in V \cup {U}, f \in Fails :
       Apply("front", o, v_front(heap, obj[o], w, f), MaxCap)

Back(o, V) ==
  /\ Running /\ Alive(o)
  /\ \E w \in V \cup {U}, f \in Fails :
       Apply("back", o, v_back(heap, obj[o], w, f), MaxCap)

\* data(), then a write of w at a live index through the pointer
DataMut(o, V) ==
  /\ Running /\ Alive(o)
  /\ \E index \in 0..MaxCap, w \in V \cup {U}, f \in Fails :
       /\ w # U => index < Min(SizeOf(o), MaxCap)
       /\ w = U => index = 0
       /\ Apply("data", o, v_data_mut(heap, obj[o], index, w, f), MaxCap)

\* The program's variables are bare bigvectors
NextBig ==
  \/ \E o \in Work : CtorBig(o)
  \/ \E o \in Work : CtorFill(o, Val)
  \/ \E o \in Work, p \in Work : CopyCtor(o, p)
  \/ \E o \in Work : Dtor(o)
  \/ \E o \in Work, p \in Work : Assign(o, p)
  \/ \E o \in Work, p \in Work : Swap(o, p)
  \/ \E o \in Work : PushBack(o, Val, MaxCap)
  \/ \E o \in Work : PopBack(o)
  \/ \E o \in Work : Insert(o, Val)
  \/ \E o \in Work : Erase(o)
  \/ \E o \in Work : Resize(o, Val)
  \/ \E o \in Work : Reserve(o, MaxCap)
  \/ \E o \in Work : ShrinkToFit(o)
  \/ \E o \in Work : IndexMut(o, Val)
  \/ \E o \in Work : IndexConst(o)
  \/ \E o \in Work : Front(o, Val)
  \/ \E o \in Work : Back(o, Val)
  \/ \E o \in Work : DataMut(o, Val)

SpecBig == Init /\ [][NextBig]_vars

\* The program's variables are vectors
Next ==
  \/ \E o \in Work : CtorEmpty(o)
  \/ \E o \in Work : CtorRange(o, FacadeVal)
  \/ \E o \in Work, p \in Work : CopyCtor(o, p)
  \/ \E o \in Work : Dtor(o)
  \/ \E o \in Work, p \in Work : Assign(o, p)
  \/ \E o \in Work, p \in Work : Swap(o, p)
  \/ \E o \in Work : PushBack(o, FacadeVal, MaxCap)
  \/ \E o \in Work : PopBack(o)
  \/ \E o \in Work : Insert(o, FacadeVal)
  \/ \E o \in Work : Erase(o)
  \/ \E o \in Work : Resize(o, FacadeVal)
  \/ \E o \in Work : Clear(o)
  \/ \E o \in Work : Reserve(o, MaxCap)
  \/ \E o \in Work : ShrinkToFit(o)
  \/ \E o \in Work : AssignRange(o, FacadeVal)
  \/ \E o \in Work : IndexMut(o, FacadeVal)
  \/ \E o \in Work : IndexConst(o)
  \/ \E o \in Work : Front(o, FacadeVal)
  \/ \E o \in Work : Back(o, FacadeVal)
  \/ \E o \in Work : DataMut(o, FacadeVal)

Spec == Init /\ [][Next]_vars

\* Copies of bigvectors that hold a block, and their destruction
NextCopy ==
  \/ \E o \in Objs : CtorFill(o, Val)
  \/ \E o \in Objs, p \in Objs : CopyCtor(o, p)
  \/ \E o \in Objs : Dtor(o)

SpecCopy == Init /\ [][NextCopy]_vars

\* Growth: bigvectors that are only copied, pushed to and reserved
NextGrow ==
  \/ \E o \in Work : CtorBig(o)
  \/ \E o \in Work, p \in Work : CopyCtor(o, p)
  \/ \E o \in Work : Dtor(o)
  \/ \E o \in Work : PushBack(o, FacadeVal, GrowCap)
  \/ \E o \in Work : Reserve(o, GrowCap)

SpecGrow == Init /\ [][NextGrow]_vars

\* Holders come and go: bigvectors that are constructed, from a range too,
\* copied, assigned and destroyed
NextCount ==
  \/ \E o \in Work : CtorBig(o)
  \/ \E o \in Work : CtorBigRange(o, FacadeVal)
  \/ \E o \in Work, p \in Work : CopyCtor(o, p)
  \/ \E o \in Work : Dtor(o)
  \/ \E o \in Work, p \in Work : Assign(o, p)

SpecCount == Init /\ [][NextCount]_vars

\* ------------------------------------------------------------ properties
\* What a caller can observe of the bigvector with store s: whether its
\* block can be read at all, and the elements 0..size-1.
Observed(h, s) ==
  LET ok == s = Null \/ (h[s].st = "live" /\ h[s].size <= Len(h[s].data))
  IN [ok |-> ok,
      elems |-> IF ok /\ s # Null THEN Elems(h, s) ELSE << >>]

\* A block as make_storage and the constructors leave it, counted once for
\* each variable that points to it
Sound(h, ob, s) ==
  /\ s # Null /\ h[s].st = "live"
  /\ h[s].size <= h[s].cap /\ h[s].cap = Len(h[s].data)
  /\ h[s].rc = Cardinality(Refs(ob, s))

\* Every mutating call on the bigvector with store s, with every argument:
\* the calls of C1 (erase with 0 <= left <= right <= size, insert at 0..size)
Mutators(h, s) ==
  LET n == Min(size(h, s), MaxCap)
  IN UNION {
       UNION {push_back(h, s, e, f) : e \in Val, f \in Fails},
       UNION {pop_back(h, s, f) : f \in Fails},
       UNION {insert(h, s, i, e, f) : i \in 0..n, e \in Val, f \in Fails},
       UNION {UNION {erase(h, s, l, r, f) : l \in 0..r} : r \in 0..n, f \in Fails},
       UNION {resize(h, s, sz, e, f) : sz \in 0..MaxCap, e \in Val, f \in Fails},
       UNION {reserve(h, s, cp, f) : cp \in 0..MaxCap, f \in Fails},
       UNION {shrink_to_fit(h, s, f) : f \in Fails},
       UNION {index_mut(h, s, i, w, f) : i \in 0..MaxCap, w \in Val, f \in Fails},
       UNION {front(h, s, w, f) : w \in Val, f \in Fails},
       UNION {back(h, s, w, f) : w \in Val, f \in Fails},
       UNION {data_mut(h, s, i, w, f) : i \in 0..(n - 1), w \in Val, f \in Fails} }

\* C1: COW isolation.  When two bigvectors a and b share a block (b is a
\* copy of a), a == b holds, and no mutating call on b, whatever its
\* arguments, changes what a holds: a's size and elements after the call
\* are those before it.
C1_CowIsolation ==
  \A a \in Objs, b \in Objs :
    (a # b /\ IsBig(a) /\ IsBig(b) /\ obj[a].store = obj[b].store
       /\ Sound(heap, obj, obj[a].store))
    => /\ big_equal(heap, obj[a].store, obj[b].store) = {"true"}
       /\ \A r \in Mutators(heap, obj[b].store) :
            r.out # "fault"
            => Observed(r.h, obj[a].store) = Observed(heap, obj[a].store)

Holders(b) == Refs(obj, b)

\* C2: no double free, no leak under copying.  Among bigvectors made by
\* the fill constructor and by copies, every block a variable points to is
\* still allocated and counts its holders; the destruction of a holder
\* frees the block exactly when it is the last holder, otherwise it only
\* counts down; and no allocated block is without holder (none leaks).
C2_FreedOnceAtLast ==
  /\ \A o \in Objs :
       Holds(obj, o)
       => LET s == obj[o].store
          IN /\ heap[s].st = "live"
             /\ heap[s].rc = Cardinality(Holders(s))
             /\ \A r \in dtor(heap, s) :
                  /\ r.out = "ok" /\ r.s = Null
                  /\ IF Cardinality(Holders(s)) = 1
                     THEN r.h = Delete(heap, s)
                     ELSE r.h = [heap EXCEPT ![s].rc = heap[s].rc - 1]
  /\ \A b \in Blocks : heap[b].st # "free" => Holders(b) # {}

\* A destructor has run on one of NObj holders of a block and left the
\* block allocated for the others
C2_Witness ==
  /\ last.op = "dtor" /\ last.out = "ok"
  /\ \E b \in Blocks :
       /\ heap[b].st = "live" /\ heap[b].rc = NObj - 1
       /\ Cardinality(Holders(b)) = NObj - 1

\* C3: block lifetime.  No variable points to a block that has been freed
\* (so that none is freed twice), and every block that is allocated has a
\* variable pointing to it: a block is released exactly when its last
\* holder drops it.
C3_BlockLifetime ==
  /\ \A o \in Objs : Holds(obj, o) => heap[obj[o].store].st = "live"
  /\ \A b \in Blocks : heap[b].st = "live" => Holders(b) # {}

\* C4: block invariants.  Every allocated block a variable points to has
\* size <= capacity and ref_count >= 1, and no mutating call writes the
\* slots or the size of a block while its ref_count is greater than 1.
C4_BlockInvariants ==
  \A o \in Objs :
    (Holds(obj, o) /\ heap[obj[o].store].st = "live")
    => LET s == obj[o].store
       IN /\ heap[s].size <= heap[s].cap
          /\ heap[s].rc >= 1
          /\ (heap[s].rc > 1 /\ heap[s].size <= Len(heap[s].data))
             => \A r \in Mutators(heap, s) :
                  (r.out # "fault" /\ r.h[s].st = "live")
                  => /\ r.h[s].data = heap[s].data
                     /\ r.h[s].size = heap[s].size

\* The ordinals of the element constructions a call on blocks of the
\* model's sizes can make
Ordinals == 1..(MaxCap + 1)

\* C5: push_back, strong exception guarantee.  Whatever bigvector
\* push_back is called on and whichever of its element constructions
\* fails (a copy of an existing element or the construction of the new
\* one; growth, clone of a shared block, in place), the exception leaves
\* the call and the heap and the store are those before the call: the
\* original block with its size, capacity, elements and ref_count, and no
\* new block.
C5_PushBackStrong ==
  \A o \in Objs :
    IsBig(o)
    => \A e \in Val, f \in Ordinals :
         \A r \in push_back(heap, obj[o].store, e, f) :
           r.exc => /\ r.out = "throw"
                    /\ r.h = heap
                    /\ r.s = obj[o].store

\* A push_back has thrown on a construction failure, on a bigvector that
\* shares its block
C5_Witness ==
  /\ last.op = "push_back" /\ last.out = "throw" /\ last.exc
  /\ \E o \in Objs : IsBig(o) /\ Holds(obj, o) /\ heap[obj[o].store].rc > 1

\* The calls of C6 on the bigvector with store s, the f-th construction
\* failing
Failing(h, s, f) ==
  LET n == Min(size(h, s), MaxCap)
  IN UNION {
       UNION {insert(h, s, i, e, f) : i \in 0..n, e \in Val},
       UNION {resize(h, s, sz, e, f) : sz \in (n + 1)..(MaxCap + 1), e \in Val},
       UNION {UNION {erase(h, s, l, r, f) : l \in 0..r} : r \in 0..n},
       UNION {reserve(h, s, cp, f) : cp \in 0..(MaxCap + 1)},
       shrink_to_fit(h, s, f),
       unique_copy(h, s, f) }

\* C6: strong exception guarantee of insert, growing resize, erase,
\* reserve, shrink_to_fit and unique_copy.  Whichever element construction
\* fails in the call, the exception leaves the call (it is not swallowed)
\* and the heap and the store are those before the call.
C6_MutatorsStrong ==
  \A o \in Objs :
    IsBig(o)
    => \A f \in Ordinals :
         \A r \in Failing(heap, obj[o].store, f) :
           r.exc => /\ r.out = "throw"
                    /\ r.h = heap
                    /\ r.s = obj[o].store

\* The store of vector o points nowhere or to an allocated block
Intact(o) == obj[o].store = Null \/ heap[obj[o].store].st = "live"

\* C7: pop_back, front and back on a vector of size 0 (Empty, Shared over
\* a block of size 0, Shared over no block) throw and leave the vector and
\* the heap as they were.
C7_EmptyAccessRaises ==
  \A o \in Objs :
    (IsVec(o) /\ Intact(o) /\ v_size(heap, obj[o]) = 0)
    => \A r \in v_pop_back(heap, obj[o], 0) \cup v_front(heap, obj[o], U, 0)
                 \cup v_back(heap, obj[o], U, 0) :
         /\ r.out = "throw"
         /\ r.h = heap
         /\ r.v = obj[o]

\* C8: operator[] is bounds-checked.  On every vector, every index i >=
\* size() makes operator[](i), const or not, throw.
C8_IndexChecked ==
  \A o \in Objs :
    (IsVec(o) /\ Intact(o))
    => \A i \in 0..(MaxCap + 1) :
         i >= v_size(heap, obj[o])
         => \A r \in v_index_const(heap, obj[o], i)
                      \cup v_index_mut(heap, obj[o], i, U, 0) :
              r.out = "throw"

\* Every call of C9 on the vector v, with every argument
FacadeMutators(h, v) ==
  LET n == Min(v_size(h, v), MaxCap)
  IN UNION {
       UNION {v_push_back(h, v, e, f) : e \in FacadeVal, f \in Fails},
       UNION {v_pop_back(h, v, f) : f \in Fails},
       UNION {v_insert(h, v, i, e, f) : i \in 0..n, e \in FacadeVal, f \in Fails},
       UNION {UNION {v_erase(h, v, l, r, f) : l \in 0..r} : r \in 0..n, f \in Fails},
       UNION {v_resize(h, v, sz, e, f) : sz \in 0..MaxCap, e \in FacadeVal, f \in Fails},
       UNION {v_clear(h, v, f) : f \in Fails},
       UNION {v_reserve(h, v, cp, f) : cp \in 0..MaxCap, f \in Fails},
       UNION {v_shrink_to_fit(h, v, f) : f \in Fails},
       UNION {v_assign(h, v, rg, f) : rg \in Ranges(FacadeVal), f \in Fails} }

\* C9: no demotion.  A vector that holds the bigvector alternative holds
\* it after every push_back, pop_back, insert, erase, resize, clear,
\* reserve, shrink_to_fit and assign.
C9_NoDemotion ==
  \A o \in Objs :
    (obj[o].tag = "Shared" /\ Intact(o))
    => \A r \in FacadeMutators(heap, obj[o]) : r.out # "fault" => r.v.tag = "Shared"

\* The results of k successive push_back calls, none failing, from the
\* heap h and the store s
RECURSIVE PushN(_, _, _)
PushN(h, s, k) ==
  IF k = 0 THEN {Ok(h, s, 0)}
  ELSE UNION { IF r.out # "ok" THEN {r} ELSE push_back(r.h, r.s, 1, 0)
               : r \in PushN(h, s, k - 1) }

\* The capacities after 0, 1, 2, ... push_back calls on a bigvector that
\* had no block
GrowthSeq == <<0, 2, 2, 4, 4, 8>>

\* C10: growth law.  A push_back that succeeds leaves the capacity doubled
\* (2 from 0) when size == capacity held before it and unchanged otherwise,
\* a block that is shared included; from a bigvector with no block, k
\* successive push_back calls leave the capacities 0, 2, 2, 4, 4, 8; and
\* reserve(n) with n > capacity() leaves the capacity n.
C10_GrowthLaw ==
  \A o \in Objs :
    IsBig(o)
    => LET s == obj[o].store
           c == capacity(heap, s)
       IN /\ \A r \in push_back(heap, s, 1, 0) :
               /\ r.out = "ok"
               /\ capacity(r.h, r.s) =
                    IF size(heap, s) = c THEN (IF c = 0 THEN 2 ELSE 2 * c) ELSE c
          /\ \A n \in (c + 1)..GrowCap :
               /\ reserve(heap, s, n, 0) # {}
               /\ \A r \in reserve(heap, s, n, 0) :
                    r.out = "ok" /\ capacity(r.h, r.s) = n
          /\ s = Null
             => \A k \in 0..(Len(GrowthSeq) - 1) :
                  /\ PushN(heap, Null, k) # {}
                  /\ \A r \in PushN(heap, Null, k) :
                       r.out = "ok" /\ capacity(r.h, r.s) = GrowthSeq[k + 1]

\* push_back calls have brought a bigvector to five elements in a block of
\* eight slots, and a push_back on a copy of it has left the copy with six
\* elements in a block of its own, of eight slots too
C10_Witness ==
  /\ last.op = "push_back" /\ last.out = "ok"
  /\ \E o \in Objs, p \in Objs :
       /\ IsBig(o) /\ IsBig(p) /\ obj[o].store # obj[p].store
       /\ SizeOf(o) = 5 /\ CapOf(o) = 8 /\ heap[obj[o].store].rc = 1
       /\ SizeOf(p) = 6 /\ CapOf(p) = 8 /\ heap[obj[p].store].rc = 1

\* The store s points nowhere, or to an allocated block whose header is
\* one the constructors and mutators write: size_ <= capacity_, capacity_
\* the number of slots allocated, ref_count >= 1
WellFormed(h, s) ==
  s = Null \/ /\ h[s].st = "live"
              /\ h[s].size <= h[s].cap /\ h[s].cap = Len(h[s].data)
              /\ h[s].rc >= 1

\* C11: erase.  On a bigvector holding the sequence e, erase of [l, r) with
\* 0 <= l <= r <= size returns normally and leaves e[0..l) followed by
\* e[r..size), the size reduced by r - l and the capacity unchanged;
\* nothing at all changes for an empty range; and an interior range erased
\* from a shared block leaves the result in a new block with ref_count 1.
C11_EraseResult ==
  \A o \in Objs :
    (IsBig(o) /\ WellFormed(heap, obj[o].store))
    => LET s == obj[o].store
           e == Elems(heap, s)
           n == Len(e)
       IN \A r \in 0..n :
            \A l \in 0..r :
              \A x \in erase(heap, s, l, r, 0) :
                /\ x.out = "ok"
                /\ WellFormed(x.h, x.s)
                /\ Elems(x.h, x.s) = Slice(e, 1, l) \o Slice(e, r + 1, n)
                /\ capacity(x.h, x.s) = capacity(heap, s)
                /\ l = r => (x.h = heap /\ x.s = s)
                /\ (l < r /\ r < n /\ heap[s].rc > 1)
                   => (x.s # s /\ x.h[x.s].rc = 1)

\* T *bigvector::insert: the position returned, begin() + index with index
\* taken on entry; iterator vector::insert: begin() when the vector was
\* Empty, begin() + index otherwise
insert_ret(index) == index
v_insert_ret(v, index) == IF v.tag = "Empty" THEN 0 ELSE index

\* The sequence e with x put in at index i
WithAt(e, i, x) == Slice(e, 1, i) \o <<x>> \o Slice(e, i + 1, Len(e))

\* C12: insert.  insert of x at index i, 0 <= i <= size, into a container
\* holding e returns normally with position i and leaves e[0..i), x,
\* e[i..size): on a bigvector (in place, grow or clone, at end()) and on a
\* vector in every representation.
C12_InsertResult ==
  \A o \in Objs :
    /\ (IsBig(o) /\ WellFormed(heap, obj[o].store))
       => LET s == obj[o].store
              e == Elems(heap, s)
          IN \A i \in 0..Len(e), x \in Val :
               \A r \in insert(heap, s, i, x, 0) :
                 /\ r.out = "ok"
                 /\ WellFormed(r.h, r.s)
                 /\ Elems(r.h, r.s) = WithAt(e, i, x)
                 /\ insert_ret(i) = i
    /\ (IsVec(o) /\ WellFormed(heap, obj[o].store))
       => LET e == View(heap, obj[o])
          IN \A i \in 0..Len(e), x \in Val :
               \A r \in v_insert(heap, obj[o], i, x, 0) :
                 /\ r.out = "ok"
                 /\ WellFormed(r.h, r.v.store)
                 /\ View(r.h, r.v) = WithAt(e, i, x)
                 /\ v_insert_ret(obj[o], i) = i

\* C13: shrink_to_fit.  With size == capacity nothing changes; with size 0
\* and capacity > 0 the bigvector holds no block afterwards (store is
\* null) and a block that was shared stays allocated, unchanged but for
\* its count, for the other holders; otherwise the bigvector holds a new
\* block with capacity == size, ref_count 1 and the same elements.
C13_ShrinkToFit ==
  \A o \in Objs :
    (IsBig(o) /\ WellFormed(heap, obj[o].store))
    => LET s == obj[o].store
       IN \A r \in shrink_to_fit(heap, s, 0) :
            /\ r.out = "ok"
            /\ IF size(heap, s) = capacity(heap, s)
               THEN r.h = heap /\ r.s = s
               ELSE IF size(heap, s) = 0
               THEN /\ r.s = Null
                    /\ heap[s].rc > 1
                       => r.h = [heap EXCEPT ![s].rc = heap[s].rc - 1]
               ELSE /\ r.s # Null /\ r.h[r.s].st = "live"
                    /\ r.h[r.s].cap = heap[s].size
                    /\ r.h[r.s].size = heap[s].size
                    /\ r.h[r.s].rc = 1
                    /\ Elems(r.h, r.s) = Elems(heap, s)

\* Every element begin()..end() of the block s points to was constructed
Constructed(h, s) == \A i \in 1..Len(Elems(h, s)) : Elems(h, s)[i] # U

\* The object o holds a vector whose block, if it has one, is well formed
\* and holds constructed elements only
Valid(o) ==
  /\ IsVec(o)
  /\ WellFormed(heap, obj[o].store)
  /\ Constructed(heap, obj[o].store)

\* C14: equality is total and representation-independent.  For any two
\* vectors a and b (Empty, Single, Shared over a block, over an empty block
\* or over no block), a == b returns, and returns true exactly when both
\* hold the same sequence; two vectors over the same block compare equal.
C14_EqualityTotal ==
  \A o \in Objs, p \in Objs :
    (Valid(o) /\ Valid(p))
    => /\ v_equal(heap, obj[o], obj[p])
            = {IF View(heap, obj[o]) = View(heap, obj[p]) THEN "true" ELSE "false"}
       /\ (obj[o].tag = "Shared" /\ obj[p].tag = "Shared"
           /\ obj[o].store = obj[p].store)
          => v_equal(heap, obj[o], obj[p]) = {"true"}

\* The vector v holds the range rg the way the constructor from a range
\* is to leave it: Empty for no element, Single for one, Shared over a
\* block of its own with that size and those elements for two or more
HoldsRange(h, v, rg) ==
  /\ View(h, v) = rg
  /\ Len(rg) = 0 => v = Empty
  /\ Len(rg) = 1 => v = Single(rg[1])
  /\ Len(rg) >= 2 => /\ v.tag = "Shared" /\ v.store # Null
                     /\ WellFormed(h, v.store)
                     /\ h[v.store].size = Len(rg)
                     /\ h[v.store].rc = 1

\* C15: construct-from-range and assign.  vector(beg, en) over a range of
\* n elements, and assign(beg, en) on any vector, return normally and leave
\* a vector of size n holding the range's elements in order: Empty for n =
\* 0, Single for n = 1, Shared over a block with size n, capacity >= n and
\* ref_count 1 for n >= 2.
C15_RangeHeld ==
  \A rg \in Ranges(Val) :
    /\ \A r \in v_range_ctor(heap, rg, 0) :
         r.out = "ok" /\ HoldsRange(r.h, r.v, rg)
    /\ \A o \in Objs :
         Valid(o) => \A r \in v_assign(heap, obj[o], rg, 0) :
                       r.out = "ok" /\ HoldsRange(r.h, r.v, rg)

\* C16: assignment.  a = b between two bigvectors returns normally; with
\* the same store on both sides nothing changes; otherwise a ends up
\* referencing b's block, whose ref_count has risen by 1, and a's old block
\* has lost one reference: freed if that was its last, else left allocated
\* and unchanged but for its count.
C16_AssignReleases ==
  \A o \in Objs, p \in Objs :
    (IsBig(o) /\ IsBig(p) /\ WellFormed(heap, obj[o].store)
              /\ WellFormed(heap, obj[p].store))
    => LET s == obj[o].store
           t == obj[p].store
       IN \A r \in assign_op(heap, s, t) :
            /\ r.out = "ok"
            /\ s = t => (r.h = heap /\ r.s = s)
            /\ s # t =>
                 /\ r.s = t
                 /\ t # Null => r.h[t] = [heap[t] EXCEPT !.rc = heap[t].rc + 1]
                 /\ s # Null =>
                      IF heap[s].rc > 1
                      THEN r.h[s] = [heap[s] EXCEPT !.rc = heap[s].rc - 1]
                      ELSE r.h[s].st = "freed"

\* The results of the mutable accesses operator[](i) with i < size, front()
\* and back() on a non-empty sequence, and data(), the reference or pointer
\* they return not written through
MutableAccesses(h, s) ==
  UNION ({index_mut(h, s, i, U, 0) : i \in 0..(size(h, s) - 1)}
         \cup (IF size(h, s) >= 1 THEN {front(h, s, U, 0), back(h, s, U, 0)} ELSE {})
         \cup {data_mut(h, s, 0, U, 0)})

\* The results of the const accesses operator[](i) const with i < size
ConstAccesses(h, s) == UNION {index_const(h, s, i) : i \in 0..(size(h, s) - 1)}

\* C17: ensure-unique on access.  A mutable access on a bigvector whose
\* block has ref_count k > 1 leaves it on a new block with ref_count 1, the
\* same capacity and the same elements, the old block at ref_count k - 1
\* and otherwise unchanged, and every other block unchanged; a mutable
\* access on a unique block, and any const access, changes nothing.
C17_EnsureUnique ==
  \A o \in Objs :
    (IsBig(o) /\ obj[o].store # Null /\ WellFormed(heap, obj[o].store))
    => LET s == obj[o].store
           k == heap[s].rc
       IN /\ \A r \in MutableAccesses(heap, s) :
               /\ r.out = "ok"
               /\ k = 1 => (r.h = heap /\ r.s = s)
               /\ k > 1 =>
                    /\ r.s # s /\ heap[r.s].st = "free"
                    /\ WellFormed(r.h, r.s)
                    /\ r.h[r.s].rc = 1
                    /\ r.h[r.s].cap = heap[s].cap
                    /\ Elems(r.h, r.s) = Elems(heap, s)
                    /\ r.h[s] = [heap[s] EXCEPT !.rc = k - 1]
                    /\ \A b \in Blocks \ {s, r.s} : r.h[b] = heap[b]
          /\ \A r \in ConstAccesses(heap, s) :
               r.out = "ok" /\ r.h = heap /\ r.s = s

\* A mutable access has just cloned: two bigvectors that shared a block
\* are on two blocks with the same elements, each with ref_count 1
C17_Witness ==
  /\ last.op \in {"index_mut", "front", "back", "data"} /\ last.out = "ok"
  /\ \E o \in Objs, p \in Objs :
       /\ IsBig(o) /\ IsBig(p)
       /\ obj[o].store # Null /\ obj[p].store # Null
       /\ obj[o].store # obj[p].store
       /\ WellFormed(heap, obj[o].store) /\ WellFormed(heap, obj[p].store)
       /\ heap[obj[o].store].rc = 1 /\ heap[obj[p].store].rc = 1
       /\ heap[obj[o].store].size = 2
       /\ Elems(heap, obj[o].store) = Elems(heap, obj[p].store)
       /\ heap[obj[o].store].cap = heap[obj[p].store].cap

\* k copies of x
Fill(k, x) == [i \in 1..k |-> x]

\* The sizes resize is called with
ResizeTo == 0..(MaxCap + 1)

\* The result r of resize(n, x) on the bigvector with store s is the one
\* the truncating and growing paths are to give.  Truncation (n below
\* size, and n equal to size too when atEqual says the equal size
\* truncates) keeps the capacity, works in place on a unique block and
\* leaves a shared block alone, the result in a new block with ref_count
\* 1; growth appends copies of x under capacity max(capacity, n) in a
\* block with ref_count 1.
Resized(h, s, n, x, r, atEqual) ==
  LET e == Elems(h, s)
      truncates == n < Len(e) \/ (atEqual /\ n = Len(e) /\ s # Null)
  IN /\ r.out = "ok"
     /\ WellFormed(r.h, r.s)
     /\ Elems(r.h, r.s) = (IF n <= Len(e) THEN Slice(e, 1, n)
                           ELSE e \o Fill(n - Len(e), x))
     /\ capacity(r.h, r.s) = Max(capacity(h, s), n)
     /\ truncates =>
          IF h[s].rc = 1 THEN r.s = s
          ELSE /\ r.s # s /\ r.h[r.s].rc = 1
               /\ r.h[s] = [h[s] EXCEPT !.rc = h[s].rc - 1]
     /\ (n = Len(e) /\ ~truncates) => (r.h = h /\ r.s = s)
     /\ n > Len(e) =>
          /\ r.h[r.s].rc = 1
          /\ (s # Null /\ h[s].rc > 1) => r.h[s] = [h[s] EXCEPT !.rc = h[s].rc - 1]

\* The result r of resize(n, x) on a vector v in the Empty or Single
\* representation: the sequence truncated or grown, Empty for n = 0,
\* Single for n = 1, Shared over a block of capacity n otherwise; capKept
\* asks for the capacity to stay what it was when n <= size.
ResizedInline(h, v, n, x, r, capKept) ==
  LET e == View(h, v)
  IN /\ r.out = "ok"
     /\ View(r.h, r.v) = (IF n <= Len(e) THEN Slice(e, 1, n)
                          ELSE e \o Fill(n - Len(e), x))
     /\ r.v.tag = (IF n = 0 THEN "Empty" ELSE IF n = 1 THEN "Single" ELSE "Shared")
     /\ n >= 2 => (WellFormed(r.h, r.v.store) /\ r.h[r.v.store].rc = 1)
     /\ v_capacity(r.h, r.v) = (IF capKept /\ n <= Len(e) THEN v_capacity(h, v) ELSE n)

\* C18 as stated: resize(n, fill) on a sequence s gives s[0..n) with the
\* capacity unchanged when n <= size, a shared block left untouched and
\* the result in a new block of the same capacity; and s followed by n -
\* size copies of fill with capacity max(old capacity, n) and ref_count 1
\* when n > size.
C18_ResizeAsStated ==
  \A n \in ResizeTo, x \in Val :
    /\ \A o \in Objs :
         (IsBig(o) /\ WellFormed(heap, obj[o].store))
         => \A r \in resize(heap, obj[o].store, n, x, 0) :
              Resized(heap, obj[o].store, n, x, r, TRUE)
    /\ \A v \in {Empty} \cup {Single(y) : y \in Val} :
         \A r \in v_resize(heap, v, n, x, 0) : ResizedInline(heap, v, n, x, r, TRUE)

\* C18, amended: as stated, except that resize(n) with n = size changes
\* nothing at all (a shared block stays shared, no new block), and that
\* resize(0) on a vector in the Single representation leaves it Empty,
\* with capacity 0.
C18_Resize ==
  \A n \in ResizeTo, x \in Val :
    /\ \A o \in Objs :
         (IsBig(o) /\ WellFormed(heap, obj[o].store))
         => \A r \in resize(heap, obj[o].store, n, x, 0) :
              Resized(heap, obj[o].store, n, x, r, FALSE)
    /\ \A v \in {Empty} \cup {Single(y) : y \in Val} :
         \A r \in v_resize(heap, v, n, x, 0) : ResizedInline(heap, v, n, x, r, FALSE)

\* A resize has just returned and the two bigvectors are as the truncation
\* of a block of two elements leaves them: one holds one element in a
\* block of capacity 2 with ref_count 1, its second slot empty, the other
\* holds two elements, the first of them that element, in a block of its
\* own
C18_Witness ==
  /\ last.op = "resize" /\ last.out = "ok"
  /\ \E o \in Objs, p \in Objs :
       /\ IsBig(o) /\ IsBig(p)
       /\ obj[o].store # Null /\ obj[p].store # Null
       /\ obj[o].store # obj[p].store
       /\ WellFormed(heap, obj[o].store) /\ WellFormed(heap, obj[p].store)
       /\ heap[obj[o].store].size = 1 /\ heap[obj[o].store].cap = 2
       /\ heap[obj[o].store].rc = 1
       /\ heap[obj[p].store].size = 2 /\ heap[obj[p].store].cap = 2
       /\ heap[obj[p].store].rc = 1
       /\ heap[obj[o].store].data[1] = heap[obj[p].store].data[1]
       /\ heap[obj[o].store].data[2] = U

\* C19: the transitions of vector::push_back.  On Empty it yields Single
\* holding the element, size 1, and no block is allocated; on Single
\* holding y it yields Shared with the sequence [y, x], size 2, over a newly
\* allocated block held by this vector alone; on Shared it stays Shared
\* and the element is appended.
C19_PushBackTransitions ==
  \A o \in Objs : \A x \in Val :
    (IsVec(o) /\ WellFormed(heap, obj[o].store))
    => \A r \in v_push_back(heap, obj[o], x, 0) :
         /\ r.out = "ok"
         /\ obj[o].tag = "Empty" =>
              /\ r.v = Single(x) /\ r.h = heap
              /\ v_size(r.h, r.v) = 1
         /\ obj[o].tag = "Single" =>
              /\ r.v.tag = "Shared" /\ r.v.store # Null
              /\ heap[r.v.store].st = "free"
              /\ WellFormed(r.h, r.v.store)
              /\ r.h[r.v.store].rc = 1
              /\ View(r.h, r.v) = <<obj[o].val, x>>
              /\ v_size(r.h, r.v) = 2
              /\ \A b \in Blocks \ {r.v.store} : r.h[b] = heap[b]
         /\ obj[o].tag = "Shared" =>
              /\ r.v.tag = "Shared"
              /\ WellFormed(r.h, r.v.store)
              /\ View(r.h, r.v) = View(heap, obj[o]) \o <<x>>
              /\ v_size(r.h, r.v) = v_size(heap, obj[o]) + 1

\* A push_back has just returned; one vector is Shared over a block of its
\* own holding two elements, as the promotion from Single leaves it, and
\* another is Single, as the push_back on Empty leaves it
C19_Witness ==
  /\ last.op = "push_back" /\ last.out = "ok"
  /\ \E o \in Objs, p \in Objs :
       /\ obj[o].tag = "Shared" /\ obj[o].store # Null
       /\ WellFormed(heap, obj[o].store)
       /\ heap[obj[o].store].size = 2 /\ heap[obj[o].store].cap = 2
       /\ heap[obj[o].store].rc = 1
       /\ obj[p].tag = "Single"
       /\ \A b \in Blocks \ {obj[o].store} : heap[b].st # "live"

\* The capacities reserve is called with
ReserveTo == 0..(MaxCap + 1)

\* C20: reserve.  reserve(n) with n <= capacity() (0 for Empty, 1 for
\* Single) changes nothing: representation, block, size, capacity and
\* elements stay; with n > capacity() the vector afterwards is Shared with
\* capacity exactly n and the same elements.
C20_Reserve ==
  \A o \in Objs : \A n \in ReserveTo :
    (IsVec(o) /\ WellFormed(heap, obj[o].store))
    => \A r \in v_reserve(heap, obj[o], n, 0) :
         /\ r.out = "ok"
         /\ n <= v_capacity(heap, obj[o]) => (r.v = obj[o] /\ r.h = heap)
         /\ n > v_capacity(heap, obj[o]) =>
              /\ r.v.tag = "Shared"
              /\ WellFormed(r.h, r.v.store)
              /\ v_capacity(r.h, r.v) = n
              /\ View(r.h, r.v) = View(heap, obj[o])

\* The results of one call of push_back, pop_back, insert, erase, resize
\* or reserve on the bigvector with store s, over every argument in range,
\* every construction of an element succeeding
SizingCalls(h, s) ==
  UNION ({push_back(h, s, x, 0) : x \in Val}
         \cup {pop_back(h, s, 0)}
         \cup {insert(h, s, i, x, 0) : i \in 0..Min(size(h, s), MaxCap), x \in Val}
         \cup {erase(h, s, l, r, 0) : l \in 0..Min(size(h, s), MaxCap),
                                      r \in 0..Min(size(h, s), MaxCap)}
         \cup {resize(h, s, n, x, 0) : n \in ResizeTo, x \in Val}
         \cup {reserve(h, s, n, 0) : n \in ReserveTo})

\* C21: shrinking never changes capacity.  pop_back on a bigvector of size
\* >= 1 returns normally, removes exactly the last element and leaves the
\* capacity as it was: in place on a unique block, in a clone of the same
\* capacity on a shared one, which is left alone but for its count.  And no
\* call of push_back, pop_back, insert, erase, resize or reserve that
\* returns leaves the bigvector with less capacity than it had, whatever
\* size and count the calls before it left in the block, as long as the
\* store is null or points to an allocated block.
C21_CapacityKept ==
  \A o \in Objs :
    (IsBig(o) /\ ~Dangling(heap, obj[o].store))
    => LET s == obj[o].store
           e == Elems(heap, s)
       IN /\ (WellFormed(heap, s) /\ size(heap, s) >= 1)
             => \A r \in pop_back(heap, s, 0) :
                  /\ r.out = "ok"
                  /\ WellFormed(r.h, r.s)
                  /\ Elems(r.h, r.s) = Slice(e, 1, Len(e) - 1)
                  /\ capacity(r.h, r.s) = capacity(heap, s)
                  /\ IF heap[s].rc = 1 THEN r.s = s
                     ELSE /\ r.s # s /\ r.h[r.s].rc = 1
                          /\ r.h[s] = [heap[s] EXCEPT !.rc = heap[s].rc - 1]
          /\ \A r \in SizingCalls(heap, s) :
               r.out = "ok"
               => /\ ~Dangling(r.h, r.s)
                  /\ capacity(r.h, r.s) >= capacity(heap, s)

\* A pop_back has just returned and the two bigvectors are as a pop_back
\* on a block of two distinct elements leaves them: one holds the first
\* element in a block of capacity 2 whose second slot is empty, the other
\* holds both elements, and each block has ref_count 1
C21_Witness ==
  /\ last.op = "pop_back" /\ last.out = "ok"
  /\ \E o \in Objs, p \in Objs :
       /\ IsBig(o) /\ IsBig(p)
       /\ obj[o].store # Null /\ obj[p].store # Null
       /\ obj[o].store # obj[p].store
       /\ WellFormed(heap, obj[o].store) /\ WellFormed(heap, obj[p].store)
       /\ heap[obj[o].store].size = 1 /\ heap[obj[o].store].cap = 2
       /\ heap[obj[o].store].rc = 1
       /\ heap[obj[p].store].size = 2 /\ heap[obj[p].store].cap = 2
       /\ heap[obj[p].store].rc = 1
       /\ heap[obj[o].store].data[1] = heap[obj[p].store].data[1]
       /\ heap[obj[o].store].data[1] # heap[obj[p].store].data[2]
       /\ heap[obj[o].store].data[2] = U

\* C22: reference-count accuracy.  In every reachable state the ref_count
\* of each allocated block is the number of bigvectors, bare or held by a
\* vector, whose store points to it; so after a promotion, the temporary
\* destroyed, the new block counts exactly its one holder.
C22_RefCountAccurate ==
  \A b \in Blocks : heap[b].st = "live" => heap[b].rc = Cardinality(Holders(b))


====
